---- MODULE Spec2Model ----
(***************************************************************************)
(* Text-layout engine of the editable text field: the edit buffer and its  *)
(* cursor (component/editable_text.rs), greedy word wrapping (wrap.rs),    *)
(* cursor projection and viewport clamping (component/mod.rs).             *)
(*                                                                         *)
(* A character is one of five representatives, named by a string:         *)
(*   "a"   a letter, 1 cell, 1 byte of UTF-8                               *)
(*   " "   a space, 1 cell, 1 byte, whitespace                             *)
(*   "\n"  the newline, a control character: unicode-width gives it no     *)
(*         width as a char (None, so 0) and 1 inside a str; whitespace     *)
(*   "W"   a wide (East-Asian) character such as U+4E16, 2 cells, 3 bytes  *)
(*   "z"   a zero-width character such as U+0301, 0 cells, 2 bytes         *)
(* A text is a sequence of characters.                                     *)
(***************************************************************************)
EXTENDS Integers, Sequences, FiniteSets, TLC

VARIABLES
    \* EditableText (component/editable_text.rs:17-24)
    autofill_func,   \* whether an AutoFillFn was given to new
    autofill_text,   \* Option<String>
    chars,           \* Vec<char>
    cursor_offset,   \* u16
    focused,         \* bool
    insert_ind,      \* usize
    arith,           \* "ok", or how u16 arithmetic failed: "panic" (the overflow
                     \* check aborted the handler) or "wrapped" (no overflow
                     \* checks: the value wrapped around); the run is followed
                     \* up to the first such failure
    key,             \* the last event handled (history)
    \* One rendering (EditableText::render_with_style), step by step
    pc,              \* the step that comes next
    render_content,  \* render_with_style: content, the text being wrapped
    rect_width,      \* rect.width, the width budget
    rect_height,     \* rect.height
    segs,            \* wrap: the segments of split_inclusive still to come
    seg_line,        \* wrap: line, the segment being wrapped
    seg_words,       \* wrap_single_line_slow_path: words
    broken_words,    \* wrap_single_line_slow_path: broken_words
    wrapped_words,   \* wrap_single_line_slow_path: wrapped_words
    wrap_lines,      \* wrap: lines
    proj_offset,     \* the cursor offset given to compute_cursor_position
    line_widths,     \* render_with_style: line_widths
    cursor,          \* render_with_style: (rel_x, rel_y)
    point,           \* what cursor_within_rect returned
    autofill_lines,  \* render_with_style: autofill_lines (or autofill, wrapped)
    split            \* what autofill_lines[0].split_at(final_line.len()) returned

editorVars == <<autofill_func, autofill_text, chars, cursor_offset, focused,
                insert_ind, arith, key>>

layoutVars == <<pc, render_content, rect_width, rect_height, segs, seg_line, seg_words,
                broken_words, wrapped_words, wrap_lines, proj_offset, line_widths,
                cursor, point, autofill_lines, split>>

vars == <<autofill_func, autofill_text, chars, cursor_offset, focused,
          insert_ind, arith, key, pc, render_content, rect_width, rect_height, segs,
          seg_line, seg_words, broken_words, wrapped_words, wrap_lines, proj_offset,
          line_widths, cursor, point, autofill_lines, split>>

----------------------------------------------------------------------------
\* Bounds of the model.

\* Longest edit buffer the key handler is driven to.
MaxLen == 3
\* Longest base content EditableText::new starts from.
MaxBase == 1

\* Longest text wrapped.
MaxText == 4
\* Widest rectangle a text is rendered in.
MaxWidth == 4
\* Tallest rectangle a text is rendered in.
MaxHeight == 3
\* Largest cursor offset projected.
MaxOffset == 10
\* cursor_within_rect is called with every coordinate and rectangle size among
\* 0 .. MaxCoord and U16Max - MaxCoord .. U16Max.
MaxCoord == 3

\* Longest text rendered with a suggestion after it.
MaxSuggestText == 3

\* Largest value of a u16.
U16Max == 65535

----------------------------------------------------------------------------
\* Characters and their measures.

NL == "\n"

Alphabet == {"a", " ", NL, "W", "z"}

\* Characters a KeyCode::Char event carries (the Enter key is KeyCode::Enter,
\* the newline enters the buffer through ALT+\ only).
KeyChars == {"a", "W", "z"}

RECURSIVE SeqsUpTo(_, _)
SeqsUpTo(S, n) ==
    IF n = 0 THEN {<<>>}
    ELSE LET shorter == SeqsUpTo(S, n - 1)
         IN  shorter \cup {Append(s, c) : s \in {t \in shorter : Len(t) = n - 1}, c \in S}

\* UnicodeWidthChar::width(c).unwrap_or(0) as u16
compute_character_width(c) ==
    CASE c = "a" -> 1
      [] c = " " -> 1
      [] c = NL  -> 0
      [] c = "W" -> 2
      [] c = "z" -> 0

\* What one character adds to UnicodeWidthStr::width: a control character
\* counts 1 there.
str_char_width(c) == IF c = NL THEN 1 ELSE compute_character_width(c)

\* UnicodeWidthStr::width(s)
RECURSIVE str_width(_)
str_width(s) ==
    IF s = <<>> THEN 0 ELSE str_char_width(Head(s)) + str_width(Tail(s))

\* u16 addition: within range the sum; beyond it the overflow check aborts
\* ("panic") or, in a build without overflow checks, the sum wraps.
AddU16(a, b) ==
    IF a + b <= U16Max
    THEN {[st |-> "ok", v |-> a + b]}
    ELSE {[st |-> "panic", v |-> a],
          [st |-> "wrapped", v |-> (a + b) % (U16Max + 1)]}

\* u16 subtraction, likewise.
SubU16(a, b) ==
    IF a >= b
    THEN {[st |-> "ok", v |-> a - b]}
    ELSE {[st |-> "panic", v |-> a],
          [st |-> "wrapped", v |-> (a - b) % (U16Max + 1)]}

\* u16::saturating_sub
saturating_sub(a, b) == IF a >= b THEN a - b ELSE 0

----------------------------------------------------------------------------
\* EditableText.

None == [some |-> FALSE, val |-> <<>>]
Some(s) == [some |-> TRUE, val |-> s]

\* Vec::insert(i, c)
VecInsert(v, i, c) == SubSeq(v, 1, i) \o <<c>> \o SubSeq(v, i + 1, Len(v))

\* Vec::remove(i): the vector without its element at (0-based) index i
VecRemove(v, i) == SubSeq(v, 1, i) \o SubSeq(v, i + 2, Len(v))

\* Strings an AutoFillFn (autofill::html_filepath) may suggest: the rest of a
\* path that starts with the content; the empty rest included.
Suggestions == {<<>>, <<"a">>, <<"W", "a">>}

\* autofill::html_filepath: nothing for empty content, otherwise the first
\* globbed path without its leading content, when there is one.
html_filepath(content) ==
    IF content = <<>> THEN {None} ELSE {None} \cup {Some(s) : s \in Suggestions}

\* No rendering is under way.
LayoutIdle ==
    /\ pc = "idle"
    /\ render_content = <<>>
    /\ rect_width = 0
    /\ rect_height = 0
    /\ segs = <<>>
    /\ seg_line = <<>>
    /\ seg_words = <<>>
    /\ broken_words = <<>>
    /\ wrapped_words = <<>>
    /\ wrap_lines = <<>>
    /\ proj_offset = 0
    /\ line_widths = <<>>
    /\ cursor = [x |-> 0, y |-> 0]
    /\ point = [kind |-> "None"]
    /\ autofill_lines = <<>>
    /\ split = [kind |-> "none"]

\* EditableText::new
EditableTextNew(base_content, func) ==
    /\ autofill_func = func
    /\ autofill_text = None
    /\ chars = base_content
    /\ cursor_offset = str_width(base_content)
    /\ focused = FALSE
    /\ insert_ind = Len(base_content)

Init ==
    /\ \E base \in SeqsUpTo(KeyChars \cup {NL}, MaxBase), func \in BOOLEAN :
          EditableTextNew(base, func)
    /\ arith = "ok"
    /\ key = "new"
    /\ LayoutIdle

\* EditableText::toggle_focus
toggle_focus ==
    /\ arith = "ok"
    /\ focused' = ~focused
    /\ autofill_text' = None
    /\ key' = "toggle_focus"
    /\ UNCHANGED layoutVars
    /\ UNCHANGED <<autofill_func, chars, cursor_offset, insert_ind, arith>>

\* handle_key_event, key.kind == Release
KeyRelease ==
    /\ arith = "ok"
    /\ key' = "Release"
    /\ UNCHANGED layoutVars
    /\ UNCHANGED <<autofill_func, autofill_text, chars, cursor_offset, focused,
                   insert_ind, arith>>

\* handle_key_event, ALT+\ : insert a newline
KeyAltBackslash ==
    /\ arith = "ok"
    /\ Len(chars) < MaxLen
    /\ chars' = VecInsert(chars, insert_ind, NL)
    /\ insert_ind' = insert_ind + 1
    /\ \E r \in AddU16(cursor_offset, 1) :
          /\ cursor_offset' = r.v
          /\ arith' = r.st
    /\ key' = "AltBackslash"
    /\ UNCHANGED layoutVars
    /\ UNCHANGED <<autofill_func, autofill_text, focused>>

\* handle_key_event, CTRL+Space : set the autofill suggestion
KeyCtrlSpace ==
    /\ arith = "ok"
    /\ IF autofill_func
       THEN \E t \in html_filepath(chars) : autofill_text' = t
       ELSE autofill_text' = None
    /\ key' = "CtrlSpace"
    /\ UNCHANGED layoutVars
    /\ UNCHANGED <<autofill_func, chars, cursor_offset, focused, insert_ind, arith>>

\* handle_key_event, Tab : accept the autofill suggestion
KeyTab ==
    /\ arith = "ok"
    /\ Len(chars) + Len(autofill_text.val) <= MaxLen
    /\ autofill_text' = None
    /\ IF autofill_text.some
       THEN /\ chars' = chars \o autofill_text.val
            /\ \E r \in AddU16(cursor_offset, str_width(autofill_text.val)) :
                  /\ cursor_offset' = r.v
                  /\ arith' = r.st
                  /\ insert_ind' = IF r.st # "panic" THEN Len(chars') ELSE insert_ind
       ELSE UNCHANGED <<chars, cursor_offset, insert_ind, arith>>
    /\ key' = "Tab"
    /\ UNCHANGED layoutVars
    /\ UNCHANGED <<autofill_func, focused>>

\* KeyChar with self.chars.push(c) in place of the insert.
KeyChar_Append(c) ==
    /\ arith = "ok"
    /\ Len(chars) < MaxLen
    /\ chars' = Append(chars, c)
    /\ insert_ind' = insert_ind + 1
    /\ \E r \in AddU16(cursor_offset, compute_character_width(c)) :
          /\ cursor_offset' = r.v
          /\ arith' = r.st
          /\ autofill_text' = IF r.st # "panic" THEN None ELSE autofill_text
    /\ key' = "Char"
    /\ UNCHANGED layoutVars
    /\ UNCHANGED <<autofill_func, focused>>

\* handle_key_event, KeyCode::Char(c)
KeyChar(c) ==
    /\ arith = "ok"
    /\ Len(chars) < MaxLen
    /\ chars' = VecInsert(chars, insert_ind, c)
    /\ insert_ind' = insert_ind + 1
    /\ \E r \in AddU16(cursor_offset, compute_character_width(c)) :
          /\ cursor_offset' = r.v
          /\ arith' = r.st
          /\ autofill_text' = IF r.st # "panic" THEN None ELSE autofill_text
    /\ key' = "Char"
    /\ UNCHANGED layoutVars
    /\ UNCHANGED <<autofill_func, focused>>

\* KeyBackspace without `&& self.insert_ind > 0`: with the insert index 0,
\* self.insert_ind - 1 underflows and the removal aborts the handler.
KeyBackspace_Unguarded ==
    /\ arith = "ok"
    /\ IF chars # <<>>
       THEN IF insert_ind > 0
            THEN LET c == chars[insert_ind]
                 IN  /\ chars' = VecRemove(chars, insert_ind - 1)
                     /\ insert_ind' = insert_ind - 1
                     /\ \E r \in SubU16(cursor_offset,
                                        IF c = NL THEN 1 ELSE compute_character_width(c)) :
                           /\ cursor_offset' = r.v
                           /\ arith' = r.st
                           /\ autofill_text' = IF r.st # "panic" THEN None ELSE autofill_text
            ELSE /\ arith' = "panic"
                 /\ UNCHANGED <<autofill_text, chars, cursor_offset, insert_ind>>
       ELSE UNCHANGED <<autofill_text, chars, cursor_offset, insert_ind, arith>>
    /\ key' = "Backspace"
    /\ UNCHANGED layoutVars
    /\ UNCHANGED <<autofill_func, focused>>

\* KeyBackspace without `self.insert_ind -= 1`.
KeyBackspace_KeepsIndex ==
    /\ arith = "ok"
    /\ IF chars # <<>> /\ insert_ind > 0
       THEN LET c == chars[insert_ind]
            IN  /\ chars' = VecRemove(chars, insert_ind - 1)
                /\ insert_ind' = insert_ind
                /\ \E r \in SubU16(cursor_offset,
                                   IF c = NL THEN 1 ELSE compute_character_width(c)) :
                      /\ cursor_offset' = r.v
                      /\ arith' = r.st
                      /\ autofill_text' = IF r.st # "panic" THEN None ELSE autofill_text
       ELSE UNCHANGED <<autofill_text, chars, cursor_offset, insert_ind, arith>>
    /\ key' = "Backspace"
    /\ UNCHANGED layoutVars
    /\ UNCHANGED <<autofill_func, focused>>

\* handle_key_event, KeyCode::Backspace | KeyCode::Delete
KeyBackspace ==
    /\ arith = "ok"
    /\ IF chars # <<>> /\ insert_ind > 0
       THEN LET c == chars[insert_ind]   \* chars.remove(insert_ind - 1), 0-based
            IN  /\ chars' = VecRemove(chars, insert_ind - 1)
                /\ insert_ind' = insert_ind - 1
                /\ \E r \in SubU16(cursor_offset,
                                   IF c = NL THEN 1 ELSE compute_character_width(c)) :
                      /\ cursor_offset' = r.v
                      /\ arith' = r.st
                      /\ autofill_text' = IF r.st # "panic" THEN None ELSE autofill_text
       ELSE UNCHANGED <<autofill_text, chars, cursor_offset, insert_ind, arith>>
    /\ key' = "Backspace"
    /\ UNCHANGED layoutVars
    /\ UNCHANGED <<autofill_func, focused>>

\* handle_key_event, KeyCode::Left
KeyLeft ==
    /\ arith = "ok"
    /\ IF chars # <<>> /\ insert_ind > 0
       THEN LET c == chars[insert_ind]   \* chars[insert_ind - 1], 0-based
            IN  /\ insert_ind' = insert_ind - 1
                /\ cursor_offset' =
                      IF c = NL THEN saturating_sub(cursor_offset, 1)
                      ELSE saturating_sub(cursor_offset, compute_character_width(c))
       ELSE UNCHANGED <<cursor_offset, insert_ind>>
    /\ key' = "Left"
    /\ UNCHANGED layoutVars
    /\ UNCHANGED <<autofill_func, autofill_text, chars, focused, arith>>

\* handle_key_event, KeyCode::Right
KeyRight ==
    /\ arith = "ok"
    /\ IF insert_ind < Len(chars)
       THEN LET c == chars[insert_ind + 1]   \* chars[insert_ind], 0-based
            IN  /\ insert_ind' = insert_ind + 1
                /\ \E r \in AddU16(cursor_offset,
                                   IF c = NL THEN 1 ELSE compute_character_width(c)) :
                      /\ cursor_offset' = r.v
                      /\ arith' = r.st
       ELSE UNCHANGED <<cursor_offset, insert_ind, arith>>
    /\ key' = "Right"
    /\ UNCHANGED layoutVars
    /\ UNCHANGED <<autofill_func, autofill_text, chars, focused>>

\* handle_key_event, any other key code (Enter, Esc, Up, ...)
KeyOther ==
    /\ arith = "ok"
    /\ key' = "Other"
    /\ UNCHANGED layoutVars
    /\ UNCHANGED <<autofill_func, autofill_text, chars, cursor_offset, focused,
                   insert_ind, arith>>

\* Component::handle_key_event of EditableText
handle_key_event ==
    \/ KeyRelease
    \/ KeyAltBackslash
    \/ KeyCtrlSpace
    \/ KeyTab
    \/ \E c \in KeyChars : KeyChar(c)
    \/ KeyBackspace
    \/ KeyLeft
    \/ KeyRight
    \/ KeyOther

Next ==
    \/ handle_key_event
    \/ toggle_focus

Spec == Init /\ [][Next]_vars

----------------------------------------------------------------------------
\* Wrapping (wrap.rs). A string slice is addressed in bytes, as in the code.

\* char::is_whitespace
is_whitespace(c) == c \in {" ", NL}

\* char::len_utf8
len_utf8(c) ==
    CASE c = "a" -> 1
      [] c = " " -> 1
      [] c = NL  -> 1
      [] c = "W" -> 3
      [] c = "z" -> 2

\* str::len: the length in bytes
RECURSIVE str_len(_)
str_len(s) == IF s = <<>> THEN 0 ELSE len_utf8(Head(s)) + str_len(Tail(s))

\* &s[from..to]: the characters of s whose bytes lie within from..to
RECURSIVE str_slice_from(_, _, _, _)
str_slice_from(s, at, from, to) ==
    IF s = <<>> THEN <<>>
    ELSE LET c    == Head(s)
             rest == str_slice_from(Tail(s), at + len_utf8(c), from, to)
         IN  IF from <= at /\ at + len_utf8(c) <= to THEN <<c>> \o rest ELSE rest

str_slice(s, from, to) == str_slice_from(s, 0, from, to)

\* textwrap::core::display_width: the sum of the characters' widths, each
\* UnicodeWidthChar::width(ch).unwrap_or(0)
RECURSIVE display_width(_)
display_width(s) ==
    IF s = <<>> THEN 0 ELSE compute_character_width(Head(s)) + display_width(Tail(s))

\* impl From<&str> for WhiteSpaceWord
WhiteSpaceWord(word) ==
    [word |-> word, width |-> display_width(word), whitespace |-> <<>>, penalty |-> <<>>]

\* separate_into_fragments: the closure's loop over char_indices, i the byte
\* index of the character at (1-based) position k, all fragments collected.
RECURSIVE fragments_from(_, _, _, _, _, _)
fragments_from(text, k, i, start, prev_char, acc) ==
    IF k > Len(text)
    THEN IF start < str_len(text)
         THEN Append(acc, WhiteSpaceWord(str_slice(text, start, str_len(text))))
         ELSE acc
    ELSE LET c    == text[k]
             next == i + len_utf8(c)
         IN  IF start >= i /\ i # 0
             THEN fragments_from(text, k + 1, next, start, c, acc)
             ELSE IF is_whitespace(prev_char)
             THEN fragments_from(text, k + 1, next, i, c,
                                 Append(acc, WhiteSpaceWord(str_slice(text, start, i))))
             ELSE IF is_whitespace(c)
             THEN fragments_from(text, k + 1, next, i, c,
                                 Append(acc, WhiteSpaceWord(str_slice(text, start, i))))
             ELSE fragments_from(text, k + 1, next, start, c, acc)

\* separate_into_fragments with start initialised to 1.
separate_into_fragments_from_one(text) == fragments_from(text, 1, 0, 1, "\\0", <<>>)

separate_into_fragments(text) == fragments_from(text, 1, 0, 0, "\\0", <<>>)

\* WhiteSpaceWord::break_apart: the closure's loop over char_indices, all
\* pieces collected.
RECURSIVE pieces_from(_, _, _, _, _, _, _)
pieces_from(w, line_width, k, idx, offset, width, acc) ==
    IF k > Len(w.word)
    THEN IF offset < str_len(w.word)
         THEN Append(acc, [word       |-> str_slice(w.word, offset, str_len(w.word)),
                           width      |-> width,
                           whitespace |-> w.whitespace,
                           penalty    |-> w.penalty])
         ELSE acc
    ELSE LET ch   == w.word[k]
             next == idx + len_utf8(ch)
         IN  IF width > 0 /\ width + compute_character_width(ch) > line_width
             THEN pieces_from(w, line_width, k + 1, next, idx, compute_character_width(ch),
                              Append(acc, [word       |-> str_slice(w.word, offset, idx),
                                           width      |-> width,
                                           whitespace |-> <<>>,
                                           penalty    |-> <<>>]))
             ELSE pieces_from(w, line_width, k + 1, next, offset,
                              width + compute_character_width(ch), acc)

\* break_apart whose cut pieces carry the word's whitespace and penalty too.
RECURSIVE pieces_all_trailing_from(_, _, _, _, _, _, _)
pieces_all_trailing_from(w, line_width, k, idx, offset, width, acc) ==
    IF k > Len(w.word)
    THEN IF offset < str_len(w.word)
         THEN Append(acc, [word       |-> str_slice(w.word, offset, str_len(w.word)),
                           width      |-> width,
                           whitespace |-> w.whitespace,
                           penalty    |-> w.penalty])
         ELSE acc
    ELSE LET ch   == w.word[k]
             next == idx + len_utf8(ch)
         IN  IF width > 0 /\ width + compute_character_width(ch) > line_width
             THEN pieces_all_trailing_from(w, line_width, k + 1, next, idx,
                                           compute_character_width(ch),
                                           Append(acc, [word       |-> str_slice(w.word, offset, idx),
                                                        width      |-> width,
                                                        whitespace |-> w.whitespace,
                                                        penalty    |-> w.penalty]))
             ELSE pieces_all_trailing_from(w, line_width, k + 1, next, offset,
                                           width + compute_character_width(ch), acc)

break_apart_all_trailing(w, line_width) ==
    pieces_all_trailing_from(w, line_width, 1, 0, 0, 0, <<>>)

break_apart(w, line_width) == pieces_from(w, line_width, 1, 0, 0, 0, <<>>)

\* break_words that breaks no word.
break_words_none(words, line_width) == words

\* break_words whose test is word.width > line_width + 1.
RECURSIVE break_words_lenient(_, _)
break_words_lenient(words, line_width) ==
    IF words = <<>> THEN <<>>
    ELSE (IF Head(words).width > line_width + 1
          THEN break_apart(Head(words), line_width)
          ELSE <<Head(words)>>)
         \o break_words_lenient(Tail(words), line_width)

\* break_words
RECURSIVE break_words(_, _)
break_words(words, line_width) ==
    IF words = <<>> THEN <<>>
    ELSE (IF Head(words).width > line_width
          THEN break_apart(Head(words), line_width)
          ELSE <<Head(words)>>)
         \o break_words(Tail(words), line_width)

\* Fragment::whitespace_width that reports one column for every word.
whitespace_width_one(w) == 1

\* impl Fragment for WhiteSpaceWord
whitespace_width(w) == str_len(w.whitespace)
penalty_width(w) == str_len(w.penalty)

\* textwrap::wrap_algorithms::wrap_first_fit with the one line width the
\* caller passes: the fragments from (1-based) position k on, the current
\* line starting at position start and holding width so far.
RECURSIVE first_fit_from(_, _, _, _, _, _)
first_fit_from(fragments, line_width, k, start, width, lines) ==
    IF k > Len(fragments)
    THEN Append(lines, SubSeq(fragments, start, Len(fragments)))
    ELSE LET f == fragments[k]
         IN  IF width + f.width + penalty_width(f) > line_width /\ k > start
             THEN first_fit_from(fragments, line_width, k + 1, k,
                                 f.width + whitespace_width(f),
                                 Append(lines, SubSeq(fragments, start, k - 1)))
             ELSE first_fit_from(fragments, line_width, k + 1, start,
                                 width + f.width + whitespace_width(f), lines)

\* wrap_first_fit that breaks as soon as a line is full: the test is >=.
RECURSIVE first_fit_ge_from(_, _, _, _, _, _)
first_fit_ge_from(fragments, line_width, k, start, width, lines) ==
    IF k > Len(fragments)
    THEN Append(lines, SubSeq(fragments, start, Len(fragments)))
    ELSE LET f == fragments[k]
         IN  IF width + f.width + penalty_width(f) >= line_width /\ k > start
             THEN first_fit_ge_from(fragments, line_width, k + 1, k,
                                    f.width + whitespace_width(f),
                                    Append(lines, SubSeq(fragments, start, k - 1)))
             ELSE first_fit_ge_from(fragments, line_width, k + 1, start,
                                    width + f.width + whitespace_width(f), lines)

wrap_first_fit_ge(fragments, line_width) ==
    first_fit_ge_from(fragments, line_width, 1, 1, 0, <<>>)

\* wrap_first_fit that never breaks: every fragment on the one line.
wrap_first_fit_one_line(fragments, line_width) == <<fragments>>

wrap_first_fit(fragments, line_width) == first_fit_from(fragments, line_width, 1, 1, 0, <<>>)

\* The sum of word.len() + word.whitespace.len() over a line's words.
RECURSIVE words_len(_)
words_len(words) ==
    IF words = <<>> THEN 0
    ELSE str_len(Head(words).word) + str_len(Head(words).whitespace) + words_len(Tail(words))

\* slices_from whose empty group pushes no line.
RECURSIVE slices_from_skip_empty(_, _, _)
slices_from_skip_empty(line, wrapped, idx) ==
    IF wrapped = <<>> THEN <<>>
    ELSE LET words == Head(wrapped)
         IN  IF words = <<>>
             THEN slices_from_skip_empty(line, Tail(wrapped), idx)
             ELSE LET last_word == words[Len(words)]
                      len       == words_len(words) - str_len(last_word.whitespace)
                  IN  <<str_slice(line, idx, idx + len) \o last_word.penalty>>
                      \o slices_from_skip_empty(line, Tail(wrapped),
                                                idx + len + str_len(last_word.whitespace))

\* wrap_single_line_slow_path, the loop over the wrapped words: the lines
\* sliced out of line from byte idx on.
RECURSIVE slices_from(_, _, _)
slices_from(line, wrapped, idx) ==
    IF wrapped = <<>> THEN <<>>
    ELSE LET words == Head(wrapped)
         IN  IF words = <<>>
             THEN <<(<<>>)>> \o slices_from(line, Tail(wrapped), idx)
             ELSE LET last_word == words[Len(words)]
                      len       == words_len(words) - str_len(last_word.whitespace)
                  IN  <<str_slice(line, idx, idx + len) \o last_word.penalty>>
                      \o slices_from(line, Tail(wrapped),
                                     idx + len + str_len(last_word.whitespace))

\* wrap_single_line_slow_path: the lines it pushes
wrap_single_line_slow_path(line, width) ==
    slices_from(line, wrap_first_fit(break_words(separate_into_fragments(line), width), width), 0)

\* wrap_single_line: the lines it pushes
wrap_single_line(line, width) ==
    IF str_len(line) < width THEN <<line>> ELSE wrap_single_line_slow_path(line, width)

\* str::split('\n') in place of split_inclusive: the newlines are dropped.
RECURSIVE split_dropping_from(_, _)
split_dropping_from(text, cur) ==
    IF text = <<>> THEN (IF cur = <<>> THEN <<>> ELSE <<cur>>)
    ELSE IF Head(text) = NL
         THEN <<cur>> \o split_dropping_from(Tail(text), <<>>)
         ELSE split_dropping_from(Tail(text), Append(cur, Head(text)))

split_dropping_newlines(text) == split_dropping_from(text, <<>>)

\* No split at all: the text is its only segment.
split_whole_text(text) == IF text = <<>> THEN <<>> ELSE <<text>>

\* str::split_inclusive('\n')
RECURSIVE split_from(_, _)
split_from(text, cur) ==
    IF text = <<>> THEN (IF cur = <<>> THEN <<>> ELSE <<cur>>)
    ELSE IF Head(text) = NL
         THEN <<Append(cur, NL)>> \o split_from(Tail(text), <<>>)
         ELSE split_from(Tail(text), Append(cur, Head(text)))

\* split_inclusive that yields one empty segment for the empty text, as
\* str::split does.
split_keeping_empty(text) ==
    IF text = <<>> THEN <<(<<>>)>> ELSE split_from(text, <<>>)

split_inclusive(text) == split_from(text, <<>>)

\* wrap
RECURSIVE wrap_segments(_, _)
wrap_segments(segments, width) ==
    IF segments = <<>> THEN <<>>
    ELSE wrap_single_line(Head(segments), width) \o wrap_segments(Tail(segments), width)

wrap(text, width) == wrap_segments(split_inclusive(text), width)

----------------------------------------------------------------------------
\* Cursor projection and clamping (component/mod.rs).

\* struct LineWidth(u16, bool)
LineWidth(w, nl) == [w |-> w, nl |-> nl]

\* compute_line_widths
compute_line_widths(lines) ==
    [k \in 1 .. Len(lines) |->
        LineWidth(str_width(lines[k]), lines[k] # <<>> /\ lines[k][Len(lines[k])] = NL)]

\* compute_cursor_position, the while loop: i, x and y when it ends
RECURSIVE walk(_, _, _, _)
walk(widths, i, x, y) ==
    IF i < Len(widths)
    THEN LET lw == widths[i + 1].w   \* widths[i], 0-based
         IN  IF x > lw
             THEN walk(widths, i + 1, x - lw, y + 1)
             ELSE [i |-> i + 1, x |-> x, y |-> y]
    ELSE [i |-> i, x |-> x, y |-> y]

\* compute_cursor_position whose boundary rule resets x without y += 1.
compute_cursor_position_same_row(cursor_offset_, widths) ==
    IF widths = <<>> THEN [x |-> 0, y |-> 0]
    ELSE LET end    == walk(widths, 0, cursor_offset_, 0)
             prev_i == saturating_sub(end.i, 1)
         IN  IF end.x = widths[prev_i + 1].w
                /\ (end.i < Len(widths) \/ widths[prev_i + 1].nl)
             THEN [x |-> 0, y |-> end.y]
             ELSE [x |-> end.x, y |-> end.y]

\* compute_cursor_position whose boundary rule ignores the line's newline.
compute_cursor_position_no_newline(cursor_offset_, widths) ==
    IF widths = <<>> THEN [x |-> 0, y |-> 0]
    ELSE LET end    == walk(widths, 0, cursor_offset_, 0)
             prev_i == saturating_sub(end.i, 1)
         IN  IF end.x = widths[prev_i + 1].w /\ end.i < Len(widths)
             THEN [x |-> 0, y |-> end.y + 1]
             ELSE [x |-> end.x, y |-> end.y]

\* compute_cursor_position whose loop compares x >= width.
RECURSIVE walk_ge(_, _, _, _)
walk_ge(widths, i, x, y) ==
    IF i < Len(widths)
    THEN LET lw == widths[i + 1].w
         IN  IF x >= lw
             THEN walk_ge(widths, i + 1, x - lw, y + 1)
             ELSE [i |-> i + 1, x |-> x, y |-> y]
    ELSE [i |-> i, x |-> x, y |-> y]

compute_cursor_position_ge(cursor_offset_, widths) ==
    IF widths = <<>> THEN [x |-> 0, y |-> 0]
    ELSE LET end    == walk_ge(widths, 0, cursor_offset_, 0)
             prev_i == saturating_sub(end.i, 1)
         IN  IF end.x = widths[prev_i + 1].w
                /\ (end.i < Len(widths) \/ widths[prev_i + 1].nl)
             THEN [x |-> 0, y |-> end.y + 1]
             ELSE [x |-> end.x, y |-> end.y]

\* compute_cursor_position that takes no line at all for one line of width 0.
compute_cursor_position_no_lines(cursor_offset_, widths) ==
    LET ws  == IF widths = <<>> THEN <<LineWidth(0, FALSE)>> ELSE widths
        end == walk(ws, 0, cursor_offset_, 0)
        prev_i == saturating_sub(end.i, 1)
    IN  IF end.x = ws[prev_i + 1].w /\ (end.i < Len(ws) \/ ws[prev_i + 1].nl)
        THEN [x |-> 0, y |-> end.y + 1]
        ELSE [x |-> end.x, y |-> end.y]

\* compute_cursor_position
compute_cursor_position(cursor_offset_, widths) ==
    IF widths = <<>> THEN [x |-> 0, y |-> 0]
    ELSE LET end    == walk(widths, 0, cursor_offset_, 0)
             prev_i == saturating_sub(end.i, 1)
         IN  IF end.x = widths[prev_i + 1].w
                /\ (end.i < Len(widths) \/ widths[prev_i + 1].nl)
             THEN [x |-> 0, y |-> end.y + 1]
             ELSE [x |-> end.x, y |-> end.y]

\* cursor_within_rect: what a call may return. y + x / width is u16
\* arithmetic: beyond U16Max the overflow check aborts ("panic") or, in a
\* build without overflow checks, the sum wraps.
cursor_within_rect(x, y, w, h) ==
    IF w = 0 \/ h = 0 THEN {[kind |-> "None"]}
    ELSE LET rest(new_y) ==
                 IF new_y >= h THEN [kind |-> "None"]
                 ELSE [kind |-> "Some", x |-> x % w, y |-> new_y]
             sum == y + (x \div w)
         IN  IF sum <= U16Max THEN {rest(sum)}
             ELSE {[kind |-> "panic"], rest(sum % (U16Max + 1))}

----------------------------------------------------------------------------
\* One rendering of a text, step by step: wrap (split into segments, then per
\* segment the fast path or fragments, break_words, wrap_first_fit and the
\* slices), compute_line_widths and compute_cursor_position, cursor_within_rect.

EditorIdle ==
    /\ autofill_func = FALSE
    /\ autofill_text = None
    /\ chars = <<>>
    /\ cursor_offset = 0
    /\ focused = TRUE
    /\ insert_ind = 0
    /\ arith = "ok"
    /\ key = "none"

InitLayout ==
    /\ EditorIdle
    /\ pc = "wrap"
    /\ render_content \in SeqsUpTo(Alphabet, MaxText)
    /\ rect_width \in 0 .. MaxWidth
    /\ rect_height = 0
    /\ segs = <<>>
    /\ seg_line = <<>>
    /\ seg_words = <<>>
    /\ broken_words = <<>>
    /\ wrapped_words = <<>>
    /\ wrap_lines = <<>>
    /\ proj_offset = 0
    /\ line_widths = <<>>
    /\ cursor = [x |-> 0, y |-> 0]
    /\ point = [kind |-> "None"]
    /\ autofill_lines = <<>>
    /\ split = [kind |-> "none"]

\* wrap: text.split_inclusive('\n')
WrapSplit ==
    /\ pc = "wrap"
    /\ segs' = split_inclusive(render_content)
    /\ wrap_lines' = <<>>
    /\ pc' = "line"
    /\ UNCHANGED <<render_content, rect_width, rect_height, seg_line, seg_words,
                   broken_words, wrapped_words, proj_offset, line_widths, cursor, point>>
    /\ UNCHANGED <<autofill_lines, split>>
    /\ UNCHANGED editorVars

\* wrap, the next line of the loop, and wrap_single_line's choice of path
WrapLine ==
    /\ pc = "line"
    /\ segs # <<>>
    /\ seg_line' = Head(segs)
    /\ segs' = Tail(segs)
    /\ IF str_len(seg_line') < rect_width
       THEN /\ wrap_lines' = Append(wrap_lines, seg_line')
            /\ pc' = "line"
       ELSE /\ wrap_lines' = wrap_lines
            /\ pc' = "fragments"
    /\ UNCHANGED <<render_content, rect_width, rect_height, seg_words, broken_words,
                   wrapped_words, proj_offset, line_widths, cursor, point>>
    /\ UNCHANGED <<autofill_lines, split>>
    /\ UNCHANGED editorVars

\* wrap_single_line_slow_path: separate_into_fragments(line)
SlowFragments ==
    /\ pc = "fragments"
    /\ seg_words' = separate_into_fragments(seg_line)
    /\ pc' = "break_words"
    /\ UNCHANGED <<render_content, rect_width, rect_height, segs, seg_line, broken_words,
                   wrapped_words, wrap_lines, proj_offset, line_widths, cursor, point>>
    /\ UNCHANGED <<autofill_lines, split>>
    /\ UNCHANGED editorVars

\* wrap_single_line_slow_path: break_words(words, width)
SlowBreakWords ==
    /\ pc = "break_words"
    /\ broken_words' = break_words(seg_words, rect_width)
    /\ pc' = "first_fit"
    /\ UNCHANGED <<render_content, rect_width, rect_height, segs, seg_line, seg_words,
                   wrapped_words, wrap_lines, proj_offset, line_widths, cursor, point>>
    /\ UNCHANGED <<autofill_lines, split>>
    /\ UNCHANGED editorVars

\* wrap_single_line_slow_path: wrap_first_fit(broken_words, &[width])
SlowFirstFit ==
    /\ pc = "first_fit"
    /\ wrapped_words' = wrap_first_fit(broken_words, rect_width)
    /\ pc' = "slices"
    /\ UNCHANGED <<render_content, rect_width, rect_height, segs, seg_line, seg_words,
                   broken_words, wrap_lines, proj_offset, line_widths, cursor, point>>
    /\ UNCHANGED <<autofill_lines, split>>
    /\ UNCHANGED editorVars

\* SlowSlices that pushes no line and starts over on the same segment.
SlowSlices_StartsOver ==
    /\ pc = "slices"
    /\ pc' = "fragments"
    /\ UNCHANGED <<render_content, rect_width, rect_height, segs, seg_line, seg_words,
                   broken_words, wrapped_words, wrap_lines, proj_offset, line_widths,
                   cursor, point>>
    /\ UNCHANGED <<autofill_lines, split>>
    /\ UNCHANGED editorVars

\* wrap_single_line_slow_path: the loop over wrapped_words
SlowSlices ==
    /\ pc = "slices"
    /\ wrap_lines' = wrap_lines \o slices_from(seg_line, wrapped_words, 0)
    /\ pc' = "line"
    /\ UNCHANGED <<render_content, rect_width, rect_height, segs, seg_line, seg_words,
                   broken_words, wrapped_words, proj_offset, line_widths, cursor, point>>
    /\ UNCHANGED <<autofill_lines, split>>
    /\ UNCHANGED editorVars

\* wrap returns lines
WrapReturn ==
    /\ pc = "line"
    /\ segs = <<>>
    /\ pc' = "wrapped"
    /\ UNCHANGED <<render_content, rect_width, rect_height, segs, seg_line, seg_words,
                   broken_words, wrapped_words, wrap_lines, proj_offset, line_widths,
                   cursor, point>>
    /\ UNCHANGED <<autofill_lines, split>>
    /\ UNCHANGED editorVars

\* render_with_style: compute_line_widths and compute_cursor_position
Project ==
    /\ pc = "wrapped"
    /\ \E off \in 0 .. MaxOffset : proj_offset' = off
    /\ line_widths' = compute_line_widths(wrap_lines)
    /\ cursor' = compute_cursor_position(proj_offset', line_widths')
    /\ pc' = "projected"
    /\ UNCHANGED <<render_content, rect_width, rect_height, segs, seg_line, seg_words,
                   broken_words, wrapped_words, wrap_lines, point>>
    /\ UNCHANGED <<autofill_lines, split>>
    /\ UNCHANGED editorVars

\* render_with_style: cursor_within_rect, for a rectangle height among heights
Clamp(heights) ==
    /\ pc = "projected"
    /\ \E h \in heights :
          /\ rect_height' = h
          /\ point' \in cursor_within_rect(cursor.x, cursor.y, rect_width, h)
    /\ pc' = "clamped"
    /\ UNCHANGED <<render_content, rect_width, segs, seg_line, seg_words, broken_words,
                   wrapped_words, wrap_lines, proj_offset, line_widths, cursor>>
    /\ UNCHANGED <<autofill_lines, split>>
    /\ UNCHANGED editorVars

NextLayout ==
    \/ WrapSplit
    \/ WrapLine
    \/ SlowFragments
    \/ SlowBreakWords
    \/ SlowFirstFit
    \/ SlowSlices
    \/ WrapReturn
    \/ Project
    \/ Clamp(0 .. MaxHeight)

SpecLayout == InitLayout /\ [][NextLayout]_vars

\* The rendering runs on: a step that can be taken is taken.
SpecLayoutFair == InitLayout /\ [][NextLayout]_vars /\ WF_vars(NextLayout)

\* str::split_at(mid): the two halves, or a panic when mid is beyond the end
\* of the string or inside a character.
split_at(s, mid) ==
    IF \E n \in 0 .. Len(s) : str_len(SubSeq(s, 1, n)) = mid
    THEN LET n == CHOOSE n \in 0 .. Len(s) : str_len(SubSeq(s, 1, n)) = mid
         IN  [kind |-> "ok", orig |-> SubSeq(s, 1, n), auto |-> SubSeq(s, n + 1, Len(s))]
    ELSE [kind |-> "panic"]

\* render_with_style, if let Some(autofill) = &self.autofill_text: the
\* suggestion is wrapped after the last line of the content
RenderAutofill ==
    /\ pc = "clamped"
    /\ point.kind # "panic"
    /\ autofill_text.some
    /\ LET autofill == autofill_text.val
       IN  IF wrap_lines = <<>>
           THEN /\ autofill_lines' = wrap(autofill, rect_width)
                /\ split' = [kind |-> "none"]
                /\ wrap_lines' = wrap_lines
           ELSE LET final_line == wrap_lines[Len(wrap_lines)]   \* lines.pop().unwrap()
                    combined   == final_line \o autofill
                IN  /\ wrap_lines' = SubSeq(wrap_lines, 1, Len(wrap_lines) - 1)
                    /\ autofill_lines' = wrap(combined, rect_width)
                    /\ split' = IF autofill_lines' = <<>>
                                THEN [kind |-> "panic"]   \* autofill_lines[0]
                                ELSE split_at(autofill_lines'[1], str_len(final_line))
    /\ pc' = "rendered"
    /\ UNCHANGED <<render_content, rect_width, rect_height, segs, seg_line, seg_words,
                   broken_words, wrapped_words, proj_offset, line_widths, cursor, point>>
    /\ UNCHANGED editorVars

\* A focused field that holds a suggestion is rendered.
InitSuggest ==
    /\ render_content \in SeqsUpTo(Alphabet, MaxSuggestText)
    /\ autofill_func = TRUE
    /\ \E s \in Suggestions : autofill_text = Some(s)
    /\ chars = render_content            \* let content = self.text()
    /\ cursor_offset = str_width(chars)
    /\ focused = TRUE
    /\ insert_ind = Len(chars)
    /\ arith = "ok"
    /\ key = "none"
    /\ pc = "wrap"
    /\ rect_width \in 0 .. MaxWidth
    /\ rect_height = 0
    /\ segs = <<>>
    /\ seg_line = <<>>
    /\ seg_words = <<>>
    /\ broken_words = <<>>
    /\ wrapped_words = <<>>
    /\ wrap_lines = <<>>
    /\ proj_offset = 0
    /\ line_widths = <<>>
    /\ cursor = [x |-> 0, y |-> 0]
    /\ point = [kind |-> "None"]
    /\ autofill_lines = <<>>
    /\ split = [kind |-> "none"]

NextSuggest ==
    \/ NextLayout
    \/ RenderAutofill

SpecSuggest == InitSuggest /\ [][NextSuggest]_vars

\* wrap_single_line alone, on every segment: a text with no newline before
\* its last character, the empty text included.
Segments ==
    {s \in SeqsUpTo(Alphabet, MaxText) : \A j \in 1 .. Len(s) - 1 : s[j] # NL}

InitSingleLine ==
    /\ EditorIdle
    /\ pc = "line"
    /\ render_content \in Segments
    /\ rect_width \in 0 .. MaxWidth
    /\ rect_height = 0
    /\ segs = <<render_content>>
    /\ seg_line = <<>>
    /\ seg_words = <<>>
    /\ broken_words = <<>>
    /\ wrapped_words = <<>>
    /\ wrap_lines = <<>>
    /\ proj_offset = 0
    /\ line_widths = <<>>
    /\ cursor = [x |-> 0, y |-> 0]
    /\ point = [kind |-> "None"]
    /\ autofill_lines = <<>>
    /\ split = [kind |-> "none"]

NextSingleLine ==
    \/ WrapLine
    \/ SlowFragments
    \/ SlowBreakWords
    \/ SlowFirstFit
    \/ SlowSlices
    \/ WrapReturn

SpecSingleLine == InitSingleLine /\ [][NextSingleLine]_vars

\* WhiteSpaceWord::break_apart alone, on every word with or without trailing
\* whitespace and penalty (the struct's fields are crate-visible; From<&Word>
\* fills them from a textwrap Word).
Words ==
    {[word       |-> t,
      width      |-> display_width(t),
      whitespace |-> ws,
      penalty    |-> pn] :
        t \in SeqsUpTo(Alphabet, MaxText), ws \in {<<>>, <<" ">>}, pn \in {<<>>, <<"a">>}}

InitBreakApart ==
    /\ EditorIdle
    /\ pc = "break_apart"
    /\ render_content = <<>>
    /\ rect_width \in 0 .. MaxWidth
    /\ rect_height = 0
    /\ segs = <<>>
    /\ seg_line = <<>>
    /\ \E w \in Words : seg_words = <<w>>
    /\ broken_words = <<>>
    /\ wrapped_words = <<>>
    /\ wrap_lines = <<>>
    /\ proj_offset = 0
    /\ line_widths = <<>>
    /\ cursor = [x |-> 0, y |-> 0]
    /\ point = [kind |-> "None"]
    /\ autofill_lines = <<>>
    /\ split = [kind |-> "none"]

\* word.break_apart(line_width), collected
BreakApart ==
    /\ pc = "break_apart"
    /\ broken_words' = break_apart(seg_words[1], rect_width)
    /\ pc' = "broken"
    /\ UNCHANGED <<render_content, rect_width, rect_height, segs, seg_line, seg_words,
                   wrapped_words, wrap_lines, proj_offset, line_widths, cursor, point>>
    /\ UNCHANGED <<autofill_lines, split>>
    /\ UNCHANGED editorVars

SpecBreakApart == InitBreakApart /\ [][BreakApart]_vars

\* cursor_within_rect alone, on coordinates and rectangle sizes from both
\* ends of the u16 range.
CoordSamples == (0 .. MaxCoord) \cup ((U16Max - MaxCoord) .. U16Max)

InitClamp ==
    /\ EditorIdle
    /\ pc = "projected"
    /\ render_content = <<>>
    /\ rect_width \in CoordSamples
    /\ rect_height = 0
    /\ segs = <<>>
    /\ seg_line = <<>>
    /\ seg_words = <<>>
    /\ broken_words = <<>>
    /\ wrapped_words = <<>>
    /\ wrap_lines = <<>>
    /\ proj_offset = 0
    /\ line_widths = <<>>
    /\ cursor \in [x : CoordSamples, y : CoordSamples]
    /\ point = [kind |-> "None"]
    /\ autofill_lines = <<>>
    /\ split = [kind |-> "none"]

NextClamp == Clamp(CoordSamples)

SpecClamp == InitClamp /\ [][NextClamp]_vars

----------------------------------------------------------------------------
\* Properties of the edit buffer, checked under Spec.

\* The width of the first i characters of cs, a newline counting 1.
RECURSIVE PrefixWidth(_, _)
PrefixWidth(cs, i) ==
    IF i = 0 THEN 0
    ELSE PrefixWidth(cs, i - 1)
         + (IF cs[i] = NL THEN 1 ELSE compute_character_width(cs[i]))

\* C1: in every reachable state the display cursor offset is the sum of the
\* display widths of the buffer characters strictly before the insert index,
\* each newline counting 1.
C1_OffsetConsistent == cursor_offset = PrefixWidth(chars, insert_ind)

\* C2: in every reachable state the insert index is within
\* 0 .. length of the character buffer.
C2_InsertIndInRange == insert_ind \in 0 .. Len(chars)

\* The cursor was moved left to the start of a buffer of two or more characters.
C2_Witness == key = "Left" /\ insert_ind = 0 /\ Len(chars) >= 2

\* C3: every key event that changes the character buffer either inserts
\* characters at the position the insert index had before the event, or
\* removes the single character immediately before that position.
C3_EditsAtInsertInd ==
    [][chars' # chars =>
         \/ /\ Len(chars') > Len(chars)
            /\ SubSeq(chars', 1, insert_ind) = SubSeq(chars, 1, insert_ind)
            /\ SubSeq(chars', insert_ind + 1 + Len(chars') - Len(chars), Len(chars'))
                  = SubSeq(chars, insert_ind + 1, Len(chars))
         \/ /\ insert_ind > 0
            /\ chars' = VecRemove(chars, insert_ind - 1)]_vars

----------------------------------------------------------------------------
\* Properties of wrapping, projection and clamping, checked under SpecLayout
\* (C6 under SpecClamp).

RECURSIVE Concat(_)
Concat(ss) == IF ss = <<>> THEN <<>> ELSE Head(ss) \o Concat(Tail(ss))

EndsWithNewline(s) == s # <<>> /\ s[Len(s)] = NL

\* The cells a string occupies: the sum of its characters' cell widths.
RECURSIVE Cells(_)
Cells(s) == IF s = <<>> THEN 0 ELSE compute_character_width(Head(s)) + Cells(Tail(s))

\* C4: for any text and any width > 0, the lines wrap returns, rejoined in
\* order (each line keeps the newline of its hard break), are the text.
C4_RoundTrip ==
    (pc = "wrapped" /\ rect_width > 0) => Concat(wrap_lines) = render_content

\* A text was wrapped with a hard break and a soft break in it.
C4_Witness ==
    /\ pc = "wrapped"
    /\ rect_width > 0
    /\ \E k \in 1 .. Len(wrap_lines) - 1 : EndsWithNewline(wrap_lines[k])
    /\ \E k \in 1 .. Len(wrap_lines) - 1 : ~EndsWithNewline(wrap_lines[k])

C6_ClampResult ==
    pc = "clamped" =>
        LET nothing == \/ rect_width = 0
                       \/ rect_height = 0
                       \/ cursor.y + (cursor.x \div rect_width) >= rect_height
        IN  /\ (point.kind = "None") <=> nothing
            /\ ~nothing =>
                  /\ point = [kind |-> "Some",
                              x    |-> cursor.x % rect_width,
                              y    |-> cursor.y + (cursor.x \div rect_width)]
                  /\ point.x < rect_width
                  /\ point.y < rect_height

\* The sum of the widths of the first k lines.
RECURSIVE WidthBefore(_, _)
WidthBefore(widths, k) ==
    IF k = 0 THEN 0 ELSE WidthBefore(widths, k - 1) + widths[k].w

TotalWidth(widths) == WidthBefore(widths, Len(widths))

\* The first line (1-based) whose width is at least what is left of the
\* offset after the lines before it; there is one when off <= TotalWidth.
StopLine(off, widths) ==
    CHOOSE k \in 1 .. Len(widths) :
        /\ off - WidthBefore(widths, k - 1) <= widths[k].w
        /\ \A j \in 1 .. k - 1 : off - WidthBefore(widths, j - 1) > widths[j].w

\* p is not after q in reading order.
NotAfter(p, q) == p.y < q.y \/ (p.y = q.y /\ p.x <= q.x)

\* C7, as claimed: over the same line widths, the position of any smaller
\* offset is not after the position of the offset projected.
C7_Monotone ==
    pc = "projected" =>
        \A a \in 0 .. proj_offset - 1 :
            NotAfter(compute_cursor_position(a, line_widths), cursor)

\* C7, amended: the same for offsets that do not exceed the total of the
\* line widths.
C7_MonotoneWithinText ==
    (pc = "projected" /\ proj_offset <= TotalWidth(line_widths)) =>
        \A a \in 0 .. proj_offset - 1 :
            NotAfter(compute_cursor_position(a, line_widths), cursor)

\* An offset within the text was projected to the start of a later row.
C7_Witness ==
    /\ pc = "projected"
    /\ proj_offset <= TotalWidth(line_widths)
    /\ proj_offset >= 2
    /\ Len(line_widths) >= 2
    /\ cursor.y >= 1
    /\ cursor.x = 0

\* C8: when the remaining offset equals the width of the line the walk
\* stopped on, the result is (0, row + 1) if that line is not the last or
\* ends with a newline, and (line width, row) otherwise.
C8_BoundaryRule ==
    (pc = "projected" /\ line_widths # <<>> /\ proj_offset <= TotalWidth(line_widths)) =>
        LET k   == StopLine(proj_offset, line_widths)
            rem == proj_offset - WidthBefore(line_widths, k - 1)
        IN  rem = line_widths[k].w =>
               cursor = IF k < Len(line_widths) \/ line_widths[k].nl
                        THEN [x |-> 0, y |-> k]
                        ELSE [x |-> line_widths[k].w, y |-> k - 1]

\* The offset projected is the end of a last line that ends with a newline.
C8_Witness ==
    /\ pc = "projected"
    /\ line_widths # <<>>
    /\ proj_offset = TotalWidth(line_widths)
    /\ line_widths[Len(line_widths)].nl
    /\ Len(line_widths) >= 2

\* C9: for a non-empty line list and an offset not exceeding the total of
\* the line widths, the walk stops at the first line whose width is at least
\* the remaining offset; apart from the exact-boundary rule the result is
\* (remaining offset, that line's row).
C9_Walk ==
    (pc = "projected" /\ line_widths # <<>> /\ proj_offset <= TotalWidth(line_widths)) =>
        LET k   == StopLine(proj_offset, line_widths)
            rem == proj_offset - WidthBefore(line_widths, k - 1)
            end == walk(line_widths, 0, proj_offset, 0)
        IN  /\ end = [i |-> k, x |-> rem, y |-> k - 1]
            /\ \/ rem = line_widths[k].w /\ (k < Len(line_widths) \/ line_widths[k].nl)
               \/ cursor = [x |-> rem, y |-> k - 1]

\* The walk stopped inside a line after the first.
C9_Witness ==
    /\ pc = "projected"
    /\ line_widths # <<>>
    /\ proj_offset <= TotalWidth(line_widths)
    /\ cursor.y >= 1
    /\ cursor.x >= 1
    /\ cursor.x < line_widths[cursor.y + 1].w

RECURSIVE WordsText(_)
WordsText(ws) == IF ws = <<>> THEN <<>> ELSE Head(ws).word \o WordsText(Tail(ws))

C11_FragmentBoundaries ==
    pc = "break_words" =>
        /\ \A k \in 1 .. Len(seg_words) - 1 :
              LET w == seg_words[k].word
              IN  /\ w # <<>>
                  /\ is_whitespace(w[Len(w)])
                  /\ \A j \in 1 .. Len(w) - 1 : ~is_whitespace(w[j])
        /\ \A k \in 1 .. Len(seg_words) :
              LET w == seg_words[k].word
              IN  (w # <<>> /\ is_whitespace(w[1])) =>
                      (k = 1 /\ is_whitespace(seg_line[1]))

RECURSIVE Newlines(_)
Newlines(s) ==
    IF s = <<>> THEN 0 ELSE (IF Head(s) = NL THEN 1 ELSE 0) + Newlines(Tail(s))

\* C13: in the lines wrap returns a newline occurs only as the final
\* character of a line, and every newline of the text is the final character
\* of some line.
C13_HardBreaks ==
    pc = "wrapped" =>
        /\ \A k \in 1 .. Len(wrap_lines) :
              \A j \in 1 .. Len(wrap_lines[k]) - 1 : wrap_lines[k][j] # NL
        /\ Cardinality({k \in 1 .. Len(wrap_lines) : EndsWithNewline(wrap_lines[k])})
              = Newlines(render_content)

\* A text with two hard breaks was wrapped, one segment on the fast path and
\* one on the slow path.
C13_Witness ==
    /\ pc = "wrapped"
    /\ Newlines(render_content) = 2
    /\ \E k \in 1 .. Len(wrap_lines) : wrap_lines[k] = <<NL>>
    /\ \E k \in 1 .. Len(wrap_lines) : Len(wrap_lines[k]) >= 2 /\ EndsWithNewline(wrap_lines[k])
    /\ Len(wrap_lines) > Len(split_inclusive(render_content))

\* C14: for a segment whose length in bytes is less than the width, the
\* single line the fast path pushes, the segment itself, is exactly the line
\* list wrap_single_line_slow_path gives for that segment and width.
C14_FastPathEquivalent ==
    (pc = "line" /\ seg_line # <<>> /\ str_len(seg_line) < rect_width) =>
        /\ wrap_lines # <<>>
        /\ wrap_lines[Len(wrap_lines)] = seg_line
        /\ wrap_single_line_slow_path(seg_line, rect_width) = <<seg_line>>

\* The fast path was taken for a segment of several fragments.
C14_Witness ==
    /\ pc = "line"
    /\ str_len(seg_line) < rect_width
    /\ Len(separate_into_fragments(seg_line)) >= 3
    /\ wrap_lines # <<>>
    /\ wrap_lines[Len(wrap_lines)] = seg_line

----------------------------------------------------------------------------
\* Properties of the single key events, checked under Spec.

\* The width a buffer character adds to the display cursor offset.
OffsetWidth(c) == IF c = NL THEN 1 ELSE compute_character_width(c)

\* C15: Backspace/Delete and Left with the insert index 0, and Right with
\* the insert index at the buffer length, change neither the buffer nor the
\* insert index nor the display cursor offset, and no arithmetic fails.
C15_SaturatesAtBounds ==
    [][(\/ key' \in {"Backspace", "Left"} /\ insert_ind = 0
        \/ key' = "Right" /\ insert_ind = Len(chars)) =>
           /\ chars' = chars
           /\ insert_ind' = insert_ind
           /\ cursor_offset' = cursor_offset
           /\ arith' = "ok"]_vars

\* Backspace was pressed at the start of a non-empty buffer: the suggestion a
\* removal would have hidden is still there.
C15_Witness ==
    /\ key = "Backspace"
    /\ insert_ind = 0
    /\ chars # <<>>
    /\ autofill_text.some
    /\ arith = "ok"

\* C16: typing a character c with insert index i puts c at position i of
\* the buffer, the characters formerly at positions >= i one to the right
\* and all others where they were, adds 1 to the insert index and the
\* display width of c (1 for a newline) to the display cursor offset.
C16_InsertCharacter ==
    [][key' \in {"Char", "AltBackslash"} =>
          \E c \in Alphabet :
              /\ Len(chars') = Len(chars) + 1
              /\ chars'[insert_ind + 1] = c
              /\ \A j \in 1 .. insert_ind : chars'[j] = chars[j]
              /\ \A j \in insert_ind + 1 .. Len(chars) : chars'[j + 1] = chars[j]
              /\ insert_ind' = insert_ind + 1
              /\ cursor_offset' = cursor_offset + OffsetWidth(c)]_vars

\* A wide character was typed between two characters of the buffer.
C16_Witness ==
    /\ key = "Char"
    /\ insert_ind >= 2
    /\ insert_ind < Len(chars)
    /\ chars[insert_ind] = "W"
    /\ cursor_offset = PrefixWidth(chars, insert_ind)

\* C17: Backspace with insert index i > 0 removes exactly the character at
\* position i - 1, subtracts 1 from the insert index and that character's
\* width (1 for a newline) from the display cursor offset.
C17_DeletePrevious ==
    [][(key' = "Backspace" /\ insert_ind > 0) =>
          /\ Len(chars') = Len(chars) - 1
          /\ \A j \in 1 .. insert_ind - 1 : chars'[j] = chars[j]
          /\ \A j \in insert_ind + 1 .. Len(chars) : chars'[j - 1] = chars[j]
          /\ insert_ind' = insert_ind - 1
          /\ cursor_offset' = cursor_offset - OffsetWidth(chars[insert_ind])]_vars

\* C18: Left with insert index > 0 and Right with insert index < buffer
\* length move the insert index by one character and the display cursor
\* offset by the width of the character stepped over (1 for a newline), and
\* leave the buffer as it is.
C18_MoveLeftRight ==
    [][/\ (key' = "Left" /\ insert_ind > 0) =>
             /\ insert_ind' = insert_ind - 1
             /\ cursor_offset' = cursor_offset - OffsetWidth(chars[insert_ind])
             /\ chars' = chars
       /\ (key' = "Right" /\ insert_ind < Len(chars)) =>
             /\ insert_ind' = insert_ind + 1
             /\ cursor_offset' = cursor_offset + OffsetWidth(chars[insert_ind + 1])
             /\ chars' = chars]_vars

----------------------------------------------------------------------------
\* Termination and the empty text, checked under SpecLayoutFair and SpecLayout.

\* C19: for every text and every width, width 0 and tokens wider than the
\* width included, wrap returns, and its line list is finite: at most two
\* lines for each character of the text.
C19_WrapTerminates ==
    <>(pc = "wrapped" /\ Len(wrap_lines) <= 2 * Len(render_content))

\* wrap returned for width 0 and a text that is one unbreakable token.
C19_Witness ==
    /\ pc = "wrapped"
    /\ rect_width = 0
    /\ Len(render_content) >= 3
    /\ \A j \in 1 .. Len(render_content) : ~is_whitespace(render_content[j])
    /\ Len(wrap_lines) >= 2

\* C20: for every width, wrap returns the empty line list if and only if
\* the text is empty.
C20_EmptyIffEmpty ==
    pc = "wrapped" => (wrap_lines = <<>> <=> render_content = <<>>)

\* wrap returned no line for the empty text and a width above 0.
C20_Witness ==
    /\ pc = "wrapped"
    /\ render_content = <<>>
    /\ rect_width > 0
    /\ wrap_lines = <<>>

----------------------------------------------------------------------------
\* Edge cases of wrapping and projection.

\* C21: wrap_single_line on the empty segment yields exactly one line, the
\* empty string, for every width, 0 included (checked under SpecSingleLine).
C21_EmptySegment ==
    (pc = "wrapped" /\ render_content = <<>>) => wrap_lines = <<(<<>>)>>

\* The empty segment went through the slow path at width 0.
C21_Witness ==
    /\ pc = "wrapped"
    /\ render_content = <<>>
    /\ rect_width = 0
    /\ wrapped_words = <<(<<>>)>>
    /\ wrap_lines = <<(<<>>)>>

\* C22: with no wrapped line at all, compute_cursor_position returns (0, 0)
\* for every cursor offset.
C22_NoLines ==
    (pc = "projected" /\ line_widths = <<>>) => cursor = [x |-> 0, y |-> 0]

\* An offset above 0 was projected onto no line.
C22_Witness ==
    /\ pc = "projected"
    /\ wrap_lines = <<>>
    /\ line_widths = <<>>
    /\ proj_offset >= 2
    /\ cursor = [x |-> 0, y |-> 0]

\* The sum of the widths of the first n fragments of a line.
RECURSIVE FragmentsWidth(_, _)
FragmentsWidth(ws, n) ==
    IF n = 0 THEN 0 ELSE FragmentsWidth(ws, n - 1) + ws[n].width

\* C23: within one segment the lines of first-fit hold the fragments in
\* order; a fragment follows others on its line only if the running width of
\* the line plus its width is at most the budget (an exact fit stays), and a
\* fragment starts a new line only if the running width of the line before
\* plus its width is strictly greater than the budget.
C23_FirstFit ==
    pc = "slices" =>
        /\ Concat(wrapped_words) = broken_words
        /\ \A g \in 1 .. Len(wrapped_words) :
              LET line == wrapped_words[g]
              IN  /\ (line = <<>> => broken_words = <<>>)
                  /\ \A n \in 2 .. Len(line) :
                        FragmentsWidth(line, n - 1) + line[n].width <= rect_width
                  /\ g > 1 =>
                        FragmentsWidth(wrapped_words[g - 1], Len(wrapped_words[g - 1]))
                            + line[1].width > rect_width

\* A line of two or more fragments fills the budget exactly and another
\* line follows it.
C23_Witness ==
    /\ pc = "slices"
    /\ Len(wrapped_words) >= 2
    /\ Len(wrapped_words[1]) >= 2
    /\ FragmentsWidth(wrapped_words[1], Len(wrapped_words[1])) = rect_width

----------------------------------------------------------------------------
\* Properties of break_apart, checked under SpecBreakApart.

\* The cells of the first n characters of a string.
RECURSIVE CellsUpTo(_, _)
CellsUpTo(t, n) ==
    IF n = 0 THEN 0 ELSE CellsUpTo(t, n - 1) + compute_character_width(t[n])

\* The pieces in order are the word, each with its own width, and only the
\* last carries the word's whitespace and penalty.
PiecesOfWord(w, ps) ==
    /\ ps # <<>>
    /\ WordsText(ps) = w.word
    /\ \A k \in 1 .. Len(ps) : ps[k].word # <<>> /\ ps[k].width = Cells(ps[k].word)
    /\ \A k \in 1 .. Len(ps) - 1 : ps[k].whitespace = <<>> /\ ps[k].penalty = <<>>
    /\ ps[Len(ps)].whitespace = w.whitespace
    /\ ps[Len(ps)].penalty = w.penalty

----------------------------------------------------------------------------
\* Over-wide fragments, overflow, staleness (SpecLayout, SpecClamp, Spec).

C26_NoOverflow ==
    pc = "clamped" =>
        /\ point.kind # "panic"
        /\ point.kind = "Some" => point.y = cursor.y + (cursor.x \div rect_width)

\* C27: along every sequence of key events no Backspace/Delete subtracts
\* more than the display cursor offset: the offset never underflows.
C27_NoUnderflow ==
    [][key' = "Backspace" =>
          /\ (chars # <<>> /\ insert_ind > 0) =>
                 OffsetWidth(chars[insert_ind]) <= cursor_offset
          /\ arith' = "ok"]_vars

\* C28: every key event that changes the buffer, and toggle_focus, leaves no
\* suggestion stored (a handler that ran to its end is meant).
C28_SuggestionCleared ==
    [][(arith' = "ok" /\ (chars' # chars \/ key' = "toggle_focus")) =>
          ~autofill_text'.some]_vars

----------------------------------------------------------------------------
\* Rendering of a suggestion (SpecSuggest) and of the cursor (SpecLayout).

\* C29: with L the last line of wrap(text, width) and S the suggestion, the
\* first line of wrap(L + S, width) is at least as long as L and begins with
\* L: splitting it at the length of L is in range and gives L first.
C29_SplitInRange ==
    (pc = "rendered" /\ wrap(render_content, rect_width) # <<>>) =>
        LET lines == wrap(render_content, rect_width)
            L     == lines[Len(lines)]
        IN  /\ autofill_lines # <<>>
            /\ str_len(autofill_lines[1]) >= str_len(L)
            /\ split.kind = "ok"
            /\ split.orig = L

\* C30: for a buffer of one-cell characters and newlines, wrapped at a width
\* of at least 1 and drawn in a rectangle of that width and enough rows, the
\* screen point of an insert index (projection, then clamping, of its
\* consistent offset) is the screen point of no other insert index.
C30_DistinctPoints ==
    (/\ pc = "clamped"
     /\ rect_width >= 1
     /\ point.kind = "Some"
     /\ \A n \in 1 .. Len(render_content) : render_content[n] \in {"a", " ", NL}) =>
        \A i, j \in 0 .. Len(render_content) :
            (i # j /\ proj_offset = PrefixWidth(render_content, i)) =>
                LET q == compute_cursor_position(PrefixWidth(render_content, j), line_widths)
                IN  \A p \in cursor_within_rect(q.x, q.y, rect_width, rect_height) :
                        p.kind = "Some" => p # point

====
